---- MODULE Spec2Model ----
(***************************************************************************)
(* The DRSA model (Deep Recurrent Survival Analysis): construction, the    *)
(* forward pass (embedding fusion, stacked LSTM, linear head, dropout and   *)
(* sigmoid), the train/eval mode flag and the optimizer step.               *)
(*                                                                         *)
(* Real numbers are fixed-point integers: the integer n stands for n / Q.   *)
(* Tensors are nested sequences, indexed from 1 (code index i is i+1 here). *)
(***************************************************************************)
EXTENDS Integers, Sequences, FiniteSets, TLC

VARIABLES
    constructed,     \* a DRSA object exists
    n_features,      \* self.n_features
    n_layers,        \* self.n_layers
    hidden_dim,      \* self.hidden_dim
    embeddings,      \* self.embeddings: sequence of tables
    lstm,            \* self.lstm: input_size, dropout, per-layer weights
    fc,              \* self.fc: weight, bias
    linear_dropout,  \* self.linear_dropout: p in percent
    modules,         \* registered submodules: attribute name -> parameter owners
    training,        \* nn.Module.training
    steps,           \* optimizer steps taken
    pc,              \* "idle" or "called" (a caller holds the result of a call)
    X,               \* the tensor of the current call
    all_features,    \* local of forward: the fused tensor
    hidden,          \* local of forward: (h_n, c_n) returned by the LSTM
    logits,          \* local of forward: self.linear_dropout(self.fc(out))
    out,             \* the returned tensor
    err,             \* the exception raised to the caller
    repeated         \* the current call followed a call the caller still held

vars == <<constructed, n_features, n_layers, hidden_dim, embeddings, lstm, fc,
          linear_dropout, modules, training, steps, pc, X, all_features,
          hidden, logits, out, err, repeated>>

\* no exception
None == "None"

\* no tensor; an absent tensor-valued local or result is the empty sequence
NoTensor == [shape |-> <<>>, data |-> <<>>]

\* ------------------------------------------------------------------ numbers

\* fixed-point scale of the float32 values (.float())
Q == 32

\* float32 sigmoid returns exactly 1.0 from this logit on: exp(-x) < 2^-24
SatHi == 17

\* float32 sigmoid returns exactly 0.0 from minus this logit down: exp(x) = inf
SatLo == 89

Abs(x) == IF x < 0 THEN -x ELSE x

\* a sequence given as a function, as the tuple of its values
Tuple(f) == f \o <<>>

Clamp(x, lo, hi) == IF x < lo THEN lo ELSE IF x > hi THEN hi ELSE x

\* division rounding to nearest, half away from zero
RoundDiv(a, d) == IF a >= 0 THEN (2 * a + d) \div (2 * d)
                  ELSE -((2 * (-a) + d) \div (2 * d))

RECURSIVE SumTo(_, _)
SumTo(f, n) == IF n = 0 THEN 0 ELSE f[n] + SumTo(f, n - 1)

\* sum of the entries of a sequence of integers
Sum(s) == SumTo(s, Len(s))

\* product of two fixed-point values
Mul(a, b) == RoundDiv(a * b, Q)

\* inner product of two fixed-point vectors of the same length
Dot(w, v) == RoundDiv(Sum([i \in 1..Len(w) |-> w[i] * v[i]]), Q)

\* a conversion that rounds down
Floor(x) == IF x >= 0 THEN x \div Q ELSE -((-x + Q - 1) \div Q)

\* Tensor.long(): truncation toward zero
Long(x) == IF x >= 0 THEN x \div Q ELSE -((-x) \div Q)

\* a head that returns the logit itself
NoSigmoid(x) == x

\* nn.Sigmoid on float32: strictly inside (0,1) unless the logit saturates
Sigmoid(x) ==
    IF x >= SatHi * Q THEN Q
    ELSE IF x <= -(SatLo * Q) THEN 0
    ELSE Clamp(Q \div 2 + RoundDiv(x, 4), 1, Q - 1)

\* tanh on float32
Tanh(x) == Clamp(x, -Q, Q)

\* nn.Dropout(p) on one element: identity in evaluation mode or when p = 0,
\* else zero where the mask drops and x / (1 - p) where it keeps
Dropout(x, p, train, keep) ==
    IF ~train \/ p = 0 THEN x
    ELSE IF keep THEN RoundDiv(x * 100, 100 - p) ELSE 0

\* ------------------------------------------------------------------ forward

\* nn.Embedding.forward on one index: the row of the table, IndexError outside
InVocab(emb, idx) == idx >= 0 /\ idx < emb.num_embeddings

Embedding(emb, idx) == emb.weight[idx + 1]

RECURSIVE CatTo(_, _)
CatTo(seqs, n) == IF n = 0 THEN <<>> ELSE CatTo(seqs, n - 1) \o seqs[n]

\* torch.cat(..., dim=-1) of the vectors of one (batch, timestep) position
Cat(seqs) == CatTo(seqs, Len(seqs))

Rank(x) == Len(x.shape)

\* the exceptions lines 129-133 can raise on x (none: the empty set); the
\* elements of a tensor of rank 4 are not modelled, so a lookup on it may or
\* may not leave the vocabulary, and with a table such a call raises there,
\* in torch.cat or, at the latest, in the encoder
FuseErrors(embs, x) ==
    LET k == Len(embs)
    IN  IF Rank(x) < 3 THEN {"IndexError"}
        ELSE IF \E i \in 1..k : i > x.shape[3] THEN {"IndexError"}
        ELSE IF Rank(x) = 3
        THEN IF \E i \in 1..k, b \in 1..x.shape[1], t \in 1..x.shape[2] :
                    ~InVocab(embs[i], Long(x.data[b][t][i]))
             THEN {"IndexError"} ELSE {}
        ELSE IF k > 0 THEN {"IndexError", "RuntimeError", "ValueError"}
        ELSE {}

\* a fusion that looks a categorical column up in the first table when its
\* own table has the structure of the first
FuseFirstTable(embs, x) ==
    LET k == Len(embs)
        table(i) == IF /\ embs[i].num_embeddings = embs[1].num_embeddings
                       /\ embs[i].embedding_dim = embs[1].embedding_dim
                    THEN embs[1] ELSE embs[i]
    IN  Tuple([b \in 1..x.shape[1] |-> Tuple([t \in 1..x.shape[2] |->
            Cat([i \in 1..k |-> Embedding(table(i), Long(x.data[b][t][i]))])
            \o SubSeq(x.data[b][t], k + 1, x.shape[3])])])

\* a fusion that puts the other columns before the lookups
FuseContinuousFirst(embs, x) ==
    LET k == Len(embs)
    IN  Tuple([b \in 1..x.shape[1] |-> Tuple([t \in 1..x.shape[2] |->
            SubSeq(x.data[b][t], k + 1, x.shape[3])
            \o Cat([i \in 1..k |-> Embedding(embs[i], Long(x.data[b][t][i]))])])])

\* all_features of lines 129-133 for a tensor of rank 3 that raises nothing:
\* the lookups of the tables on the first columns, then the other columns
Fuse(embs, x) ==
    LET k == Len(embs)
    IN  Tuple([b \in 1..x.shape[1] |-> Tuple([t \in 1..x.shape[2] |->
            Cat([i \in 1..k |-> Embedding(embs[i], Long(x.data[b][t][i]))])
            \o SubSeq(x.data[b][t], k + 1, x.shape[3])])])

\* an encoder that takes the columns it needs of a tensor that is too wide
EncoderTruncates(embs, net, x) ==
    IF Rank(x) # 3 THEN {"RuntimeError", "ValueError"}
    ELSE IF Sum([i \in 1..Len(embs) |-> embs[i].embedding_dim])
            + x.shape[3] - Len(embs) < net.input_size
    THEN {"RuntimeError"} ELSE {}

\* the exceptions nn.LSTM raises on the fused tensor: a rank other than 3
\* (a rank 4 input with no table reaches it; a RuntimeError or a ValueError,
\* by the version of the library) or a width other than input_size
EncoderErrors(embs, net, x) ==
    IF Rank(x) # 3 THEN {"RuntimeError", "ValueError"}
    ELSE IF Sum([i \in 1..Len(embs) |-> embs[i].embedding_dim])
            + x.shape[3] - Len(embs) # net.input_size
    THEN {"RuntimeError"} ELSE {}

\* the exceptions a forward call on x can raise
ForwardErrors(embs, net, x) ==
    IF FuseErrors(embs, x) # {} THEN FuseErrors(embs, x)
    ELSE EncoderErrors(embs, net, x)

\* the states of the random generator: two bits, one deciding the mask on
\* the even elements and one the mask on the odd elements
RngStates == {0, 1, 2, 3}

\* the dropout mask drawn from generator state rng keeps element e
Keep(rng, e) == IF e % 2 = 0 THEN rng % 2 = 1 ELSE rng \div 2 = 1

\* one LSTM cell step (gates in the order i, f, g, o)
LSTMCell(W, x, s) ==
    LET H == Len(s.h)
        gate(r) == Dot(W.w_ih[r], x) + Dot(W.w_hh[r], s.h) + W.b_ih[r] + W.b_hh[r]
        c2 == Tuple([j \in 1..H |-> Mul(Sigmoid(gate(H + j)), s.c[j])
                                    + Mul(Sigmoid(gate(j)), Tanh(gate(2 * H + j)))])
    IN  [h |-> Tuple([j \in 1..H |-> Mul(Sigmoid(gate(3 * H + j)), Tanh(c2[j]))]),
         c |-> c2]

RECURSIVE BackState(_, _, _, _)
BackState(W, xs, s0, t) ==
    IF t > Len(xs) THEN s0 ELSE LSTMCell(W, xs[t], BackState(W, xs, s0, t + 1))

\* a layer that runs over the sequence right to left
LayerRunBackward(W, xs, s0, t) == Tuple([u \in 1..t |-> BackState(W, xs, s0, u)])

RECURSIVE LayerRun(_, _, _, _)
\* the states of one layer after each of the first t steps of xs, left to right
LayerRun(W, xs, s0, t) ==
    IF t = 0 THEN <<>>
    ELSE LET prev == LayerRun(W, xs, s0, t - 1)
         IN  Append(prev, LSTMCell(W, xs[t], IF t = 1 THEN s0 ELSE prev[t - 1]))

RECURSIVE Encode(_, _, _, _, _, _, _)
\* the state sequences of layers 1..l on the sequence xs of batch element b;
\* dropout acts on the output of every layer but the last
Encode(net, xs, init, train, rng, b, l) ==
    IF l = 0 THEN <<>>
    ELSE LET T == Len(xs)
             H == net.hidden_size
             below == Encode(net, xs, init, train, rng, b, l - 1)
             inp == IF l = 1 THEN xs
                    ELSE Tuple([t \in 1..T |-> Tuple([j \in 1..H |->
                            Dropout(below[l - 1][t].h[j], net.dropout, train,
                                    Keep(rng, ((b - 1) * T + t - 1) * H + j + l))])])
         IN  Append(below, LayerRun(net.weights[l], inp, init[l], T))

\* a recurrent state that starts from what the previous call left
CarriedHidden(prev, L, B, H) ==
    IF prev # <<>> THEN prev
    ELSE Tuple([b \in 1..B |-> Tuple([l \in 1..L |->
            [h |-> Tuple([j \in 1..H |-> 0]), c |-> Tuple([j \in 1..H |-> 0])]])])

\* the recurrent state a call starts from: zero for every layer and batch
\* element, whatever the previous call left
InitialHidden(prev, L, B, H) ==
    Tuple([b \in 1..B |-> Tuple([l \in 1..L |->
        [h |-> Tuple([j \in 1..H |-> 0]), c |-> Tuple([j \in 1..H |-> 0])]])])

\* self.linear_dropout(self.fc(h)) at position e of the batch
Logits(head, p, train, rng, e, h) ==
    Tuple([o \in 1..Len(head.weight) |->
        Dropout(Dot(head.weight[o], h) + head.bias[o], p, train,
                Keep(rng, e * Len(head.weight) + o - 1))])

\* self.sigmoid(z), elementwise
Emit(z) ==
    Tuple([b \in 1..Len(z) |-> Tuple([t \in 1..Len(z[b]) |->
        Tuple([o \in 1..Len(z[b][t]) |-> Sigmoid(z[b][t][o])])])])

\* a forward pass whose encoder takes the first dimension for time and the
\* second for the batch
RunTimeMajor(embs, net, head, p, train, prev, x, rng) ==
    LET B == x.shape[2]
        T == x.shape[1]
        L == net.num_layers
        fused == Fuse(embs, x)
        major == Tuple([b \in 1..B |-> Tuple([t \in 1..T |-> fused[t][b]])])
        init == InitialHidden(<<>>, L, B, net.hidden_size)
        enc == Tuple([b \in 1..B |-> Encode(net, major[b], init[b], train, rng, b, L)])
        z == Tuple([t \in 1..T |-> Tuple([b \in 1..B |->
                Logits(head, p, train, rng, (b - 1) * T + t - 1, enc[b][L][t].h)])])
    IN  [all_features |-> fused,
         hidden |-> Tuple([b \in 1..B |-> Tuple([l \in 1..L |-> enc[b][l][T]])]),
         logits |-> z,
         out |-> Emit(z)]

\* lines 128-141 on a tensor of rank 3 that raises nothing
Run(embs, net, head, p, train, prev, x, rng) ==
    LET B == x.shape[1]
        T == x.shape[2]
        L == net.num_layers
        fused == Fuse(embs, x)
        init == InitialHidden(prev, L, B, net.hidden_size)
        enc == Tuple([b \in 1..B |-> Encode(net, fused[b], init[b], train, rng, b, L)])
        z == Tuple([b \in 1..B |-> Tuple([t \in 1..T |->
                Logits(head, p, train, rng, (b - 1) * T + t - 1, enc[b][L][t].h)])])
    IN  [all_features |-> fused,
         hidden |-> Tuple([b \in 1..B |-> Tuple([l \in 1..L |-> enc[b][l][T]])]),
         logits |-> z,
         out |-> Emit(z)]

\* ------------------------------------------------------------------ bounds

\* largest number of (batch, timestep) positions of an input
MaxCells == 2

\* number of optimizer steps followed
MaxSteps == 1

\* ------------------------------------------------------------------ inputs

\* the values of n_features tried
FeatureCounts == {1, 3}

\* the embedding lists tried, each table as <<num_embeddings, embedding_dim>>
TableLists == {<<>>, <<<<2, 1>>>>, <<<<2, 2>>, <<2, 2>>>>, <<<<2, 1>>, <<3, 2>>>>}

\* <<hidden_dim, n_layers, output_size, LSTM_dropout, Linear_dropout>> tried,
\* the dropout rates in percent
Hypers == {<<2, 1, 2, 0, 0>>, <<1, 2, 1, 50, 50>>}

\* a parameter value as the random initialisation of generator state seed
\* leaves it: between -1 and 1
Param(seed, tag, r, c) == ((seed * 7 + tag * 13 + r * 5 + c * 3) % (2 * Q + 1)) - Q

\* nn.Embedding(V, D) as the caller creates table i
NewEmbedding(seed, i, V, D) ==
    [num_embeddings |-> V, embedding_dim |-> D,
     weight |-> Tuple([r \in 1..V |-> Tuple([c \in 1..D |-> Param(seed, i, r, c)])])]

\* nn.LSTM(input_size, hidden_size, num_layers, batch_first=True, dropout=p)
NewLSTM(seed, input_size, H, L, p) ==
    [input_size |-> input_size, hidden_size |-> H, num_layers |-> L, dropout |-> p,
     weights |-> Tuple([l \in 1..L |->
        LET width == IF l = 1 THEN input_size ELSE H
        IN  [w_ih |-> Tuple([r \in 1..4 * H |->
                        Tuple([c \in 1..width |-> Param(seed, 10 + 4 * l, r, c)])]),
             w_hh |-> Tuple([r \in 1..4 * H |->
                        Tuple([c \in 1..H |-> Param(seed, 11 + 4 * l, r, c)])]),
             b_ih |-> Tuple([r \in 1..4 * H |-> Param(seed, 12 + 4 * l, r, 0)]),
             b_hh |-> Tuple([r \in 1..4 * H |-> Param(seed, 13 + 4 * l, r, 0)])]])]

\* nn.Linear(hidden_dim, output_size)
NewLinear(seed, H, O) ==
    [weight |-> Tuple([o \in 1..O |-> Tuple([c \in 1..H |-> Param(seed, 30, o, c)])]),
     bias |-> Tuple([o \in 1..O |-> Param(seed, 31, o, 0)])]

\* the rows an input is made of: alternating 0.0 and 1.0, which are codes of
\* every table tried
Rows == {1, 2}

Row(r, F) == Tuple([c \in 1..F |-> IF (c + r) % 2 = 0 THEN Q ELSE 0])

\* the values written over one entry of an input: -1.0, -0.5, 0.5, 3.0
Pokes == {-Q, -(Q \div 2), Q \div 2, 3 * Q}

Shapes == {s \in (1..MaxCells) \X (1..MaxCells) : s[1] * s[2] <= MaxCells}

Tensor3(B, T, F, rows) ==
    [shape |-> <<B, T, F>>,
     data |-> Tuple([b \in 1..B |-> Tuple([t \in 1..T |-> Row(rows[b][t], F)])])]

Poke(x, b, t, c, v) ==
    [x EXCEPT !.data[b][t][c] = v]

\* the arrangement of the first row alone
Plain(B, T, F) == Tensor3(B, T, F, [b \in 1..B |-> [t \in 1..T |-> 1]])

\* the inputs of rank 3 and width F: every arrangement of the rows, and the
\* plain single sequence with one entry of its last step written over
Inputs3(F) ==
    UNION {{Tensor3(s[1], s[2], F, rows) : rows \in [1..s[1] -> [1..s[2] -> Rows]]}
           : s \in Shapes}
    \cup {Poke(Plain(1, MaxCells, F), 1, MaxCells, c, v) : c \in 1..F, v \in Pokes}

\* inputs of another rank: only the shape is modelled
InputsOther(F) ==
    {[shape |-> <<MaxCells, F>>, data |-> <<>>],
     [shape |-> <<1, MaxCells, F, 1>>, data |-> <<>>],
     [shape |-> <<1, 1, 1, F>>, data |-> <<>>]}

\* the inputs tried on a model of n features: those of its width, those of
\* another rank, and plain ones a column narrower or wider
Inputs(n) == Inputs3(n) \cup InputsOther(n)
             \cup {Plain(1, MaxCells, n + 1)}
             \cup (IF n > 1 THEN {Plain(1, MaxCells, n - 1)} ELSE {})


\* generator states the random initialisation starts from
Seeds == {1}

\* the changes one optimizer step makes to the parameters it is given
Deltas == {100 * Q, -(100 * Q)}

\* ------------------------------------------------------------------ state

Init ==
    /\ constructed = FALSE
    /\ n_features = 0
    /\ n_layers = 0
    /\ hidden_dim = 0
    /\ embeddings = <<>>
    /\ lstm = [input_size |-> 0, hidden_size |-> 0, num_layers |-> 0, dropout |-> 0,
               weights |-> <<>>]
    /\ fc = [weight |-> <<>>, bias |-> <<>>]
    /\ linear_dropout = 0
    /\ modules = [lstm |-> {}]
    /\ training = TRUE
    /\ steps = 0
    /\ pc = "idle"
    /\ X = NoTensor
    /\ all_features = <<>>
    /\ hidden = <<>>
    /\ logits = <<>>
    /\ out = <<>>
    /\ repeated = FALSE
    /\ err = None

call == <<pc, X, all_features, hidden, logits, out, err, repeated>>

\* lines 89-112, shared by both definitions of DRSA.__init__
InitFields(n, tables, hp, seed) ==
    /\ ~constructed
    /\ constructed' = TRUE
    /\ n_features' = n
    /\ n_layers' = hp[2]
    /\ hidden_dim' = hp[1]
    /\ embeddings' = [i \in 1..Len(tables) |->
                        NewEmbedding(seed, i, tables[i][1], tables[i][2])]
    /\ lstm' = NewLSTM(seed,
                       Sum([i \in 1..Len(tables) |-> tables[i][2]]) + n - Len(tables),
                       hp[1], hp[2], hp[4])
    /\ fc' = NewLinear(seed, hp[1], hp[3])
    /\ linear_dropout' = hp[5]
    /\ training' = TRUE
    /\ UNCHANGED <<steps, call>>

\* the parameter owners an nn.ModuleList of the tables, the LSTM and the
\* linear layer registers
ModuleList(k) == {<<"embeddings", i>> : i \in 1..k} \cup {<<"lstm", 0>>, <<"fc", 0>>}

\* DRSA.__init__ with params_to_train
Construct(n, tables, hp, seed) ==
    /\ InitFields(n, tables, hp, seed)
    /\ modules' = [lstm |-> {<<"lstm", 0>>}, fc |-> {<<"fc", 0>>},
                   linear_dropout |-> {}, sigmoid |-> {},
                   params_to_train |-> ModuleList(Len(tables))]

\* DRSA.__init__ of notebooks/01_model.ipynb: self.embeddings is a plain
\* list and nothing else holds the tables
ConstructNotebook(n, tables, hp, seed) ==
    /\ InitFields(n, tables, hp, seed)
    /\ modules' = [lstm |-> {<<"lstm", 0>>}, fc |-> {<<"fc", 0>>},
                   linear_dropout |-> {}, sigmoid |-> {}]

\* model.parameters(): the parameters of every registered submodule
Parameters == UNION {modules[a] : a \in DOMAIN modules}

frame == <<constructed, n_features, n_layers, hidden_dim, linear_dropout, modules>>
weights == <<embeddings, lstm, fc>>

\* model.eval()
Eval ==
    /\ constructed /\ pc = "idle" /\ training
    /\ training' = FALSE
    /\ UNCHANGED <<frame, weights, steps, call>>

\* model.train()
Train ==
    /\ constructed /\ pc = "idle" /\ ~training
    /\ training' = TRUE
    /\ UNCHANGED <<frame, weights, steps, call>>

\* dropout layers that are inactive or never reached draw nothing from the
\* generator
Draws(x, rng) ==
    \/ rng = 0
    \/ /\ training
       /\ (lstm.dropout > 0 /\ n_layers > 1) \/ linear_dropout > 0
       /\ ForwardErrors(embeddings, lstm, x) = {}

\* the tensor a caller that holds the result of a call on X calls again on
Again(x) ==
    Rank(x) = 3 /\ x.shape = X.shape /\ x = Plain(x.shape[1], x.shape[2], x.shape[3])

\* a forward pass whose lookups renormalise the tables in place, to entries
\* of at most 0.5
ForwardRenorms(x, rng) ==
    /\ constructed
    /\ pc = "idle" \/ (pc = "called" /\ ~training /\ Again(x))
    /\ Draws(x, rng)
    /\ pc' = "called"
    /\ repeated' = (pc = "called")
    /\ X' = x
    /\ IF ForwardErrors(embeddings, lstm, x) # {}
       THEN /\ err' \in ForwardErrors(embeddings, lstm, x)
            /\ all_features' = <<>> /\ hidden' = <<>> /\ logits' = <<>>
            /\ out' = <<>>
       ELSE LET r == Run(embeddings, lstm, fc, linear_dropout, training, hidden,
                         x, rng)
            IN  /\ err' = None
                /\ all_features' = r.all_features
                /\ hidden' = r.hidden
                /\ logits' = r.logits
                /\ out' = r.out
    /\ embeddings' = [i \in 1..Len(embeddings) |->
            [embeddings[i] EXCEPT !.weight =
                Tuple([r \in 1..Len(@) |-> Tuple([c \in 1..Len(@[r]) |->
                    Clamp(@[r][c], -(Q \div 2), Q \div 2)])])]]
    /\ UNCHANGED <<frame, lstm, fc, training, steps>>

\* DRSA.forward(x); rng is the state of the generator the dropout layers
\* draw their masks from. A caller that holds a result may call again, on the
\* plain tensor of the same shape (in training mode that reaches nothing a
\* first call does not)
Forward(x, rng) ==
    /\ constructed
    /\ pc = "idle" \/ (pc = "called" /\ ~training /\ Again(x))
    /\ Draws(x, rng)
    /\ pc' = "called"
    /\ repeated' = (pc = "called")
    /\ X' = x
    /\ IF ForwardErrors(embeddings, lstm, x) # {}
       THEN /\ err' \in ForwardErrors(embeddings, lstm, x)
            /\ all_features' = <<>> /\ hidden' = <<>> /\ logits' = <<>>
            /\ out' = <<>>
       ELSE LET r == Run(embeddings, lstm, fc, linear_dropout, training, hidden,
                         x, rng)
            IN  /\ err' = None
                /\ all_features' = r.all_features
                /\ hidden' = r.hidden
                /\ logits' = r.logits
                /\ out' = r.out
    /\ UNCHANGED <<frame, weights, training, steps>>

\* the caller is done with the result of the call
Return ==
    /\ pc = "called"
    /\ pc' = "idle"
    /\ X' = NoTensor /\ all_features' = <<>> /\ hidden' = <<>> /\ logits' = <<>>
    /\ out' = <<>> /\ err' = None /\ repeated' = FALSE
    /\ UNCHANGED <<frame, weights, training, steps>>

Shift(m, d) == Tuple([r \in 1..Len(m) |-> Tuple([c \in 1..Len(m[r]) |-> m[r][c] + d])])

\* optimizer.step() of an optimizer built from model.parameters(): every
\* parameter it was given moves, the others stay
OptimizerStep(d) ==
    /\ constructed /\ pc = "idle" /\ steps < MaxSteps
    /\ steps' = steps + 1
    /\ embeddings' = [i \in 1..Len(embeddings) |->
            IF <<"embeddings", i>> \in Parameters
            THEN [embeddings[i] EXCEPT !.weight = Shift(@, d)]
            ELSE embeddings[i]]
    /\ lstm' = IF <<"lstm", 0>> \in Parameters
               THEN [lstm EXCEPT !.weights = [l \in 1..Len(@) |->
                        [w_ih |-> Shift(@[l].w_ih, d), w_hh |-> Shift(@[l].w_hh, d),
                         b_ih |-> [r \in 1..Len(@[l].b_ih) |-> @[l].b_ih[r] + d],
                         b_hh |-> [r \in 1..Len(@[l].b_hh) |-> @[l].b_hh[r] + d]]]]
               ELSE lstm
    /\ fc' = IF <<"fc", 0>> \in Parameters
             THEN [weight |-> Shift(fc.weight, d),
                   bias |-> [o \in 1..Len(fc.bias) |-> fc.bias[o] + d]]
             ELSE fc
    /\ UNCHANGED <<frame, training, call>>

Next ==
    \/ \E n \in FeatureCounts, tables \in TableLists, hp \in Hypers, seed \in Seeds :
            \/ Construct(n, tables, hp, seed)
            \/ ConstructNotebook(n, tables, hp, seed)
    \/ Eval
    \/ Train
    \/ \E x \in Inputs(n_features), rng \in RngStates : Forward(x, rng)
    \/ Return
    \/ \E d \in Deltas : OptimizerStep(d)

Spec == Init /\ [][Next]_vars

\* -------------------------------------------------------------- properties

\* a forward call has returned an output
Returned == pc = "called" /\ err = None

\* a forward call has raised
Raised == pc = "called" /\ err # None

\* the model was built with valid parameters: no more tables than features
ValidModel == constructed /\ Len(embeddings) <= n_features

\* the tensor of the call has shape (B, T, n_features) and its categorical
\* columns hold values inside [0, num_embeddings)
ValidInput ==
    /\ Rank(X) = 3
    /\ X.shape[3] = n_features
    /\ \A i \in 1..Len(embeddings), b \in 1..X.shape[1], t \in 1..X.shape[2] :
            i <= X.shape[3] =>
                /\ X.data[b][t][i] >= 0
                /\ X.data[b][t][i] < embeddings[i].num_embeddings * Q

\* the output has shape (B, T, output_size)
OutShape ==
    /\ Len(out) = X.shape[1]
    /\ \A b \in 1..Len(out) :
            /\ Len(out[b]) = X.shape[2]
            /\ \A t \in 1..Len(out[b]) : Len(out[b][t]) = Len(fc.bias)

\* every entry of the output satisfies P(entry, its logit)
OutEntries(P(_, _)) ==
    \A b \in 1..Len(out) : \A t \in 1..Len(out[b]) : \A o \in 1..Len(out[b][t]) :
        P(out[b][t][o], logits[b][t][o])

Strict(v, z) == 0 < v /\ v < Q

Saturating(v, z) ==
    /\ 0 <= v /\ v <= Q
    /\ (-(SatLo * Q) < z /\ z < SatHi * Q) => Strict(v, z)

\* C1 (as amended): on a validly built model, a call on an input of shape
\* (B, T, n_features) with in-vocabulary codes returns an output of shape
\* (B, T, output_size) whose entries lie in [0,1], and strictly inside (0,1)
\* wherever the value given to the sigmoid is inside the float32 saturation
\* thresholds
C1_ShapeAndRange ==
    (pc = "called" /\ ValidModel /\ ValidInput) =>
        Returned /\ OutShape /\ OutEntries(Saturating)

\* C1 (as stated): every entry lies strictly within (0,1)
C1_StrictlyInside ==
    (pc = "called" /\ ValidModel /\ ValidInput) =>
        Returned /\ OutShape /\ OutEntries(Strict)

\* a call on a batch of two one-step sequences returned two outputs per
\* position, not all equal
C1_Witness ==
    /\ Returned /\ ValidModel /\ ValidInput
    /\ X.shape[1] > 1 /\ Len(fc.bias) > 1
    /\ out[1][1][1] # out[2][1][2]

\* the output of the model in evaluation mode on x
EvalOut(x) == Run(embeddings, lstm, fc, linear_dropout, FALSE, <<>>, x, 0).out

\* x raises nothing on the model
Accepted(x) == ForwardErrors(embeddings, lstm, x) = {}

\* x and y have the same shape and agree on the first t steps
SamePrefix(x, y, t) ==
    /\ x.shape = y.shape
    /\ \A b \in 1..x.shape[1], u \in 1..t : x.data[b][u] = y.data[b][u]

\* C2: in evaluation mode, every accepted input of the same shape that agrees
\* with the input of the call on the steps up to t yields the same output on
\* the steps up to t, whatever the later steps hold
C2_Causal ==
    (Returned /\ ~training) =>
        \A y \in Inputs3(X.shape[3]) :
            LET o == EvalOut(y)
            IN  \A t \in 1..X.shape[2] :
                    (SamePrefix(X, y, t) /\ Accepted(y)) =>
                        \A b \in 1..X.shape[1], u \in 1..t : o[b][u] = out[b][u]

\* a call in evaluation mode returned on a sequence of several steps, and an
\* input that differs from it only after the first step yields another output
\* after the first step
C2_Witness ==
    /\ Returned /\ ~training /\ X.shape[2] > 1
    /\ \E y \in Inputs3(X.shape[3]) :
            /\ SamePrefix(X, y, 1) /\ Accepted(y) /\ y # X
            /\ EvalOut(y)[1][2] # out[1][2]

\* C3: in evaluation mode the output of a returned call is the output of a
\* call on the same input that no call preceded, whatever calls came before
C3_FunctionOfInput ==
    (Returned /\ ~training) => out = EvalOut(X)

\* a call in evaluation mode returned right after another returned call that
\* left a recurrent state other than zero
C3_Witness ==
    /\ Returned /\ ~training /\ repeated
    /\ \E b \in 1..Len(hidden), l \in 1..n_layers, j \in 1..hidden_dim :
            hidden[b][l].h[j] # 0

\* the rank of the input of the call is not 3 or its last dimension is not
\* n_features
WrongShape == Rank(X) # 3 \/ X.shape[Rank(X)] # n_features

RightShape == Rank(X) = 3 /\ X.shape[3] = n_features

\* some entry of a categorical column satisfies P(value, table)
SomeCode(P(_, _)) ==
    \E i \in 1..Len(embeddings), b \in 1..X.shape[1], t \in 1..X.shape[2] :
        P(X.data[b][t][i], embeddings[i])

\* the value is -1.0 or less, or the vocabulary size or more
BeyondTruncation(v, emb) == v <= -Q \/ v >= emb.num_embeddings * Q

\* the value is outside [0, vocabulary size)
OutsideVocabulary(v, emb) == v < 0 \/ v >= emb.num_embeddings * Q

\* the value is strictly between -1.0 and 0.0
SmallNegative(v, emb) == -Q < v /\ v < 0

\* C5: a call whose input holds, in a categorical column, a value of -1.0 or
\* less or of the vocabulary size or more raises an IndexError and leaves no
\* output; a value strictly between -1.0 and 0.0 is truncated to 0 and, when
\* nothing else is out of range, the call returns with row 0 of the table
C5_IndexError ==
    (pc = "called" /\ ValidModel /\ RightShape) =>
        /\ SomeCode(BeyondTruncation) => err = "IndexError" /\ out = <<>>
        /\ (SomeCode(SmallNegative) /\ ~SomeCode(BeyondTruncation)) =>
                /\ Returned
                /\ \A i \in 1..Len(embeddings), b \in 1..X.shape[1],
                      t \in 1..X.shape[2] :
                        SmallNegative(X.data[b][t][i], embeddings[i]) =>
                            \A c \in 1..embeddings[i].embedding_dim :
                                all_features[b][t][
                                    Sum([j \in 1..i - 1 |->
                                            embeddings[j].embedding_dim]) + c]
                                = embeddings[i].weight[1][c]

\* C5 as stated: any value outside [0, vocabulary size) in a categorical
\* column, -0.5 included, makes the call raise an IndexError
C5_AnyOutside ==
    (pc = "called" /\ ValidModel /\ RightShape /\ SomeCode(OutsideVocabulary)) =>
        err = "IndexError" /\ out = <<>>

\* a call raised an IndexError on an input of the right shape that holds -1.0
\* in a categorical column
C5_Witness ==
    /\ Raised /\ ValidModel /\ RightShape /\ err = "IndexError"
    /\ \E i \in 1..Len(embeddings), b \in 1..X.shape[1], t \in 1..X.shape[2] :
            X.data[b][t][i] = -Q

\* C6 as stated: no model is constructed with more tables than features
C6_ConfigurationError == constructed => Len(embeddings) <= n_features

\* s with its entries i and j exchanged
SwapSeq(s, i, j) == [s EXCEPT ![i] = s[j], ![j] = s[i]]

\* x with the data of its columns i and j exchanged
SwapColumns(x, i, j) ==
    [x EXCEPT !.data = Tuple([b \in 1..x.shape[1] |-> Tuple([t \in 1..x.shape[2] |->
                            SwapSeq(x.data[b][t], i, j)])])]

\* the position before the block of table i in the fused vector
Offset(embs, i) == Sum([j \in 1..i - 1 |-> embs[j].embedding_dim])

\* v with the blocks of tables i and j, of the same dimension, exchanged
SwapBlocks(v, embs, i, j) ==
    LET D == embs[i].embedding_dim
        oi == Offset(embs, i)
        oj == Offset(embs, j)
    IN  Tuple([c \in 1..Len(v) |->
            IF oi < c /\ c <= oi + D THEN v[c - oi + oj]
            ELSE IF oj < c /\ c <= oj + D THEN v[c - oj + oi]
            ELSE v[c]])

\* net with the input weights of its first layer exchanged likewise
SwapInputWeights(net, embs, i, j) ==
    [net EXCEPT !.weights[1].w_ih =
        Tuple([r \in 1..Len(@) |-> SwapBlocks(@[r], embs, i, j)])]

\* the pairs of tables of the same vocabulary size and dimension
TwinTables ==
    {p \in (1..Len(embeddings)) \X (1..Len(embeddings)) :
        /\ p[1] < p[2]
        /\ embeddings[p[1]].num_embeddings = embeddings[p[2]].num_embeddings
        /\ embeddings[p[1]].embedding_dim = embeddings[p[2]].embedding_dim}

\* C7: exchanging two tables of the same vocabulary size and dimension
\* together with the data of their columns exchanges the two blocks of the
\* fused vector and changes nothing else of it; the output is the same once
\* the input weights of the encoder's first layer are exchanged likewise
C7_SwapExchangesBlocks ==
    (Returned /\ ~training) =>
        \A p \in TwinTables :
            LET embs == SwapSeq(embeddings, p[1], p[2])
                x == SwapColumns(X, p[1], p[2])
            IN  /\ ForwardErrors(embs, lstm, x) = {}
                /\ Fuse(embs, x) =
                    Tuple([b \in 1..X.shape[1] |-> Tuple([t \in 1..X.shape[2] |->
                        SwapBlocks(all_features[b][t], embeddings, p[1], p[2])])])
                /\ Run(embs, SwapInputWeights(lstm, embeddings, p[1], p[2]), fc,
                       linear_dropout, FALSE, <<>>, x, 0).out = out

\* C7 as stated: the exchange leaves the output unchanged, all weights fixed
C7_SwapInvariant ==
    (Returned /\ ~training) =>
        \A p \in TwinTables :
            Run(SwapSeq(embeddings, p[1], p[2]), lstm, fc, linear_dropout, FALSE,
                <<>>, SwapColumns(X, p[1], p[2]), 0).out = out

\* a call in evaluation mode returned on a model with two such tables whose
\* columns hold different codes
C7_Witness ==
    /\ Returned /\ ~training
    /\ \E p \in TwinTables : X.data[1][1][p[1]] # X.data[1][1][p[2]]

\* C8 as stated: model.parameters() holds every table, the encoder and the head
C8_AllRegistered ==
    constructed => ModuleList(Len(embeddings)) \subseteq Parameters

\* C9: the encoder is constructed with input width sum(D_i) + n_features - k,
\* and at every position of a returned call the vector passed to it has that
\* width and holds the row of table i chosen by column i, for i in table
\* order, then the columns after the k-th in their order
C9_Fusion ==
    /\ constructed =>
            lstm.input_size =
                Offset(embeddings, Len(embeddings) + 1) + n_features - Len(embeddings)
    /\ Returned =>
        \A b \in 1..X.shape[1], t \in 1..X.shape[2] :
            LET k == Len(embeddings)
                v == all_features[b][t]
            IN  /\ Len(v) = lstm.input_size
                /\ \A i \in 1..k : \A c \in 1..embeddings[i].embedding_dim :
                        v[Offset(embeddings, i) + c]
                        = embeddings[i].weight[Long(X.data[b][t][i]) + 1][c]
                /\ \A c \in k + 1..n_features :
                        v[Offset(embeddings, k + 1) + c - k] = X.data[b][t][c]

\* a call returned on a model of three features with two tables of different
\* dimensions
C9_Witness ==
    /\ Returned /\ n_features = 3 /\ Len(embeddings) = 2
    /\ embeddings[1].embedding_dim # embeddings[2].embedding_dim
    /\ all_features[1][1][4] # all_features[1][1][1]

\* C10: in evaluation mode the output of batch element b is the output of
\* any accepted input, of any batch size, at the batch element that holds the
\* same sequence
C10_BatchIndependent ==
    (Returned /\ ~training) =>
        \A y \in Inputs3(n_features) :
            (/\ \E b \in 1..X.shape[1], c \in 1..y.shape[1] : y.data[c] = X.data[b]
             /\ Accepted(y)) =>
                LET o == EvalOut(y)
                IN  \A b \in 1..X.shape[1], c \in 1..y.shape[1] :
                        y.data[c] = X.data[b] => o[c] = out[b]

\* a call in evaluation mode returned on a batch of two different sequences
\* that reach different logits
C10_Witness ==
    /\ Returned /\ ~training /\ X.shape[1] > 1
    /\ X.data[1] # X.data[2] /\ logits[1] # logits[2]

\* C11: a step that makes or repeats a forward call, whether the call returns
\* or raises, changes no parameter (tables, encoder, head) and nothing of
\* the configuration; once the model is built, a parameter changes only in
\* an optimizer step, taken while no call is in progress
C11_ForwardFrame ==
    [][/\ pc' = "called" =>
            /\ embeddings' = embeddings /\ lstm' = lstm /\ fc' = fc
            /\ n_features' = n_features /\ n_layers' = n_layers
            /\ hidden_dim' = hidden_dim /\ linear_dropout' = linear_dropout
            /\ modules' = modules /\ training' = training
       /\ (constructed /\ weights' # weights) =>
            pc = "idle" /\ pc' = "idle" /\ steps' = steps + 1]_vars

\* a call in training mode raised on a model with tables, after an optimizer
\* step changed the parameters
C11_Witness ==
    /\ Raised /\ training /\ steps > 0 /\ Len(embeddings) > 0
    /\ embeddings # [i \in 1..Len(embeddings) |->
                        NewEmbedding(1, i, embeddings[i].num_embeddings,
                                     embeddings[i].embedding_dim)]

====
